---- MODULE Spec2Model ----
(***************************************************************************)
(* Model of FactoryFactory (src/src/factories/Factory.js): a specification *)
(* (defaults, validate, factory, props, initialize, prototype) is turned   *)
(* into a Factory ("Maker"); calling the Factory runs                      *)
(*   runDefaults -> runValidate -> runFactory || Object.create(runProps)   *)
(*   -> instance.constructor/options -> runInitialize                      *)
(* and Factory.extend derives a new Factory whose factory is a wrapper     *)
(* that calls the base Factory and re-points the instance's prototype.     *)
(***************************************************************************)
EXTENDS Naturals, Sequences, FiniteSets, TLC

\* Bound on the number of Factories that are created (FactoryFactory calls,
\* directly or through extend).
MaxMakers == 3
MaxInstances == 2
MaxListeners == 2

(***************************************************************************)
(* JavaScript values.  kind is the value's own kind, val tells values of   *)
(* one kind apart (for an object: the constructor it is an instance of).   *)
(***************************************************************************)
Absent    == [kind |-> "absent",    val |-> ""]     \* the key is not there
Undefined == [kind |-> "undefined", val |-> ""]
Null      == [kind |-> "null",      val |-> ""]
Str(s)    == [kind |-> "string",    val |-> s]
Num(s)    == [kind |-> "number",    val |-> s]
Bool(s)   == [kind |-> "boolean",   val |-> s]
Obj(c)    == [kind |-> "object",    val |-> c]

\* typeof v
TypeOf(v) ==
  IF v.kind = "null" THEN "object" ELSE v.kind

\* !v
Falsy(v) ==
  \/ v.kind \in {"undefined", "null", "absent"}
  \/ v = Str("")
  \/ v = Num("0")
  \/ v = Bool("false")

\* v instanceof ctor, for the constructor function named ctor
InstanceOf(v, ctor) ==
  v.kind = "object" /\ v.val = ctor

Keys == {"name", "age"}

\* an options record: every key either absent or bound to a value
EmptyOpts == [k \in Keys |-> Absent]

\* opts[key]: a missing key reads as undefined
Get(opts, k) ==
  IF opts[k] = Absent THEN Undefined ELSE opts[k]


Names == {"x", "y"}

(***************************************************************************)
(* Objects.  An instance has an identity (id), the Factory whose prototype *)
(* object is its [[Prototype]] (proto, 0: a prototype of no Factory), its  *)
(* own constructor and options properties, and its other own properties.   *)
(* A Factory's prototype object is identified with the Factory's index.    *)
(***************************************************************************)
NoDesc == [val |-> Absent, writable |-> FALSE]
NoOwn  == [n \in Names |-> NoDesc]
NoNames == [n \in Names |-> Absent]

NoInst ==
  [id |-> "none", proto |-> 0, ctor |-> 0, hasOptions |-> FALSE,
   options |-> EmptyOpts, own |-> NoOwn]

\* the object a custom factory hands back: made by the caller, not by Object.create
ExternalObject ==
  [id |-> "ext", proto |-> 0, ctor |-> 0, hasOptions |-> FALSE,
   options |-> EmptyOpts, own |-> NoOwn]

(***************************************************************************)
(* The fields of a specification (factoryOptions).                         *)
(***************************************************************************)
\* defaults: absent | a mapping | a function returning a mapping
NoDefaults        == [kind |-> "none",     id |-> "", map |-> EmptyOpts]
MapDefaults(d)    == [kind |-> "object",   id |-> "", map |-> d]
FnDefaults(f, d)  == [kind |-> "function", id |-> f,  map |-> d]

\* validate: absent | predicate | required field | field -> type | array of rules
NoRule            == [kind |-> "none", id |-> "", field |-> "", throws |-> FALSE,
                      ret |-> Undefined, pairs |-> << >>, items |-> << >>]
Predicate(f, t, r) == [NoRule EXCEPT !.kind = "function", !.id = f, !.throws = t, !.ret = r]
Required(f)       == [NoRule EXCEPT !.kind = "string", !.id = f, !.field = f]
Typed(i, ps)      == [NoRule EXCEPT !.kind = "object", !.id = i, !.pairs = ps]
All(rs)           == [NoRule EXCEPT !.kind = "array", !.items = rs]

\* a type tag of a field -> type mapping: a typeof name, or a constructor function
Tag(t)            == [isFn |-> FALSE, name |-> t]
Ctor(c)           == [isFn |-> TRUE,  name |-> c]
Pair(k, t)        == [key |-> k, tag |-> t]

\* factory: absent | a custom function returning ret | the wrapper extend installs
NoFactory         == [kind |-> "none",    id |-> "", ret |-> Undefined]
CustomFactory(f, r) == [kind |-> "custom", id |-> f, ret |-> r]
Wrapper           == [kind |-> "wrapper", id |-> "wrapper", ret |-> Undefined]

\* props: absent | a mapping of property descriptors | a function returning one
NoProps           == [kind |-> "none",     id |-> "", map |-> NoOwn]
MapProps(d)       == [kind |-> "object",   id |-> "", map |-> d]
FnProps(f, d)     == [kind |-> "function", id |-> f,  map |-> d]

\* initialize: absent | a function | a function that sets properties of this
NoInit            == [kind |-> "none",     id |-> "", sets |-> NoNames]
FnInit(f)         == [kind |-> "function", id |-> f,  sets |-> NoNames]
SetterInit(f, s)  == [kind |-> "function", id |-> f,  sets |-> s]

(***************************************************************************)
(* The run of one Factory call: the options object (mutated in place), the *)
(* calls of user functions and rule evaluations so far (log), the error    *)
(* being thrown (err, with the field it names and the Factory it was       *)
(* thrown in), the values runFactory and runProps returned (ret, props)    *)
(* and the instance.                                                       *)
(***************************************************************************)
Event(m, hook, fn, opts, inst) ==
  [m |-> m, hook |-> hook, fn |-> fn, opts |-> opts, inst |-> inst]

Start(input) ==
  [opts |-> input, log |-> << >>, err |-> "none", errKey |-> "", errAt |-> 0,
   ret |-> Bool("false"), props |-> NoOwn, inst |-> NoInst]

Throw(st, m, e, k) ==
  [st EXCEPT !.err = e, !.errKey = k, !.errAt = m, !.inst = NoInst]

Logged(st, m, hook, fn) ==
  [st EXCEPT !.log = Append(st.log, Event(m, hook, fn, st.opts, st.inst))]

\* a faulty variant of lodashDefaults: the defaults overwrite what the caller gave (_.assign)
lodashDefaultsOverwrites(opts, defaults) ==
  [k \in Keys |-> IF defaults[k] # Absent THEN defaults[k] ELSE opts[k]]

\* _.defaults(opts, defaults): fills the keys of opts that resolve to undefined
lodashDefaults(opts, defaults) ==
  [k \in Keys |->
     IF Get(opts, k) = Undefined /\ defaults[k] # Absent THEN defaults[k] ELSE opts[k]]

\* runDefaults(Factory, opts), for a Factory whose defaults field is d
runDefaults(d, m, st) ==
  IF d.kind = "function"
    THEN LET called == Logged(st, m, "defaults", d.id)
         IN  [called EXCEPT !.opts = lodashDefaults(st.opts, d.map)]
  ELSE IF d.kind = "object"
    THEN [st EXCEPT !.opts = lodashDefaults(st.opts, d.map)]
  ELSE st

\* the mapping branch of runValidate, for one (field, type) pair
PairError(pair, opts) ==
  LET value == Get(opts, pair.key)
      type  == pair.tag
      typeofDiffers == type.isFn \/ TypeOf(value) # type.name
  IN  IF value.kind = "undefined" \/ value = Null THEN "missing"
      ELSE IF typeofDiffers /\ (~type.isFn \/ InstanceOf(value, type.name)) THEN "wrongType"
      ELSE IF ~type.isFn /\ type.name = "string" /\ Falsy(value) THEN "missing"
      ELSE "none"

\* a faulty variant of RequiredError: every falsy value counts as not provided (!value)
RequiredErrorFalsy(field, opts) ==
  IF Falsy(Get(opts, field)) THEN "missing" ELSE "none"

\* the string branch of runValidate
RequiredError(field, opts) ==
  LET value == Get(opts, field)
      valid1 == ~(value.kind = "undefined" \/ value = Null)
      valid2 == IF TypeOf(value) = "string" /\ Falsy(value) THEN FALSE ELSE valid1
  IN  IF valid2 THEN "none" ELSE "missing"

\* _.each over the pairs of a mapping: the first failing pair throws
checkPairs(rule, m, st) ==
  LET bad   == {i \in 1..Len(rule.pairs) : PairError(rule.pairs[i], st.opts) # "none"}
      seen  == Logged(st, m, "rule", rule.id)
  IN  IF bad = {} THEN seen
      ELSE LET i == CHOOSE j \in bad : \A l \in bad : j <= l
           IN  Throw(seen, m, PairError(rule.pairs[i], st.opts), rule.pairs[i].key)

checkRequired(rule, m, st) ==
  LET seen == Logged(st, m, "rule", rule.id)
  IN  IF RequiredError(rule.field, st.opts) = "none" THEN seen
      ELSE Throw(seen, m, "missing", rule.field)

\* a faulty variant of callPredicate: a predicate that returns false fails the validation
callPredicateChecksResult(rule, m, st) ==
  LET called == Logged(st, m, "validate", rule.id)
  IN  IF rule.throws THEN Throw(called, m, "custom", "")
      ELSE IF rule.ret = Bool("false") THEN Throw(called, m, "custom", "")
      ELSE called

\* a predicate: called with the options; its return value is dropped
callPredicate(rule, m, st) ==
  LET called == Logged(st, m, "validate", rule.id)
  IN  IF rule.throws THEN Throw(called, m, "custom", "") ELSE called

RECURSIVE runValidate(_, _, _)
RECURSIVE eachRule(_, _, _, _)

\* runValidate(rule, opts); a thrown error ends every enclosing evaluation
runValidate(rule, m, st) ==
  IF st.err # "none" THEN st
  ELSE IF rule.kind = "function" THEN callPredicate(rule, m, st)
  ELSE IF rule.kind = "array"    THEN eachRule(rule.items, 1, m, st)
  ELSE IF rule.kind = "object"   THEN checkPairs(rule, m, st)
  ELSE IF rule.kind = "string"   THEN checkRequired(rule, m, st)
  ELSE st

\* _.each(rules, val => { runValidate(val, opts); })
eachRule(items, i, m, st) ==
  IF i > Len(items) \/ st.err # "none" THEN st
  ELSE eachRule(items, i + 1, m, runValidate(items[i], m, st))


(***************************************************************************)
(* State: the Factories created so far (a Factory carries its              *)
(* factoryOptions; parent is the Factory whose prototype object its own    *)
(* prototype object delegates to, base the Factory its wrapper calls,      *)
(* extProto the extendOptions.prototype its wrapper copies), and the last  *)
(* Factory call: which Factory, the caller's options, and how it ran.      *)
(***************************************************************************)
VARIABLES makers, called, input, run

(***************************************************************************)
(* The instances a caller holds on to, and the events mixin: listeners is  *)
(* what the EventEmitters hold, in the order of registration (emitter is   *)
(* the Factory whose prototype object eventsMixin gave that emitter, owner *)
(* the instance the listener was registered through); fired is the         *)
(* callbacks the last trigger invoked, removed the listeners the last off  *)
(* took away, each with the instance the call was made on.                 *)
(***************************************************************************)
VARIABLES instances, listeners, fired, removed

held == <<instances, listeners, fired, removed>>

vars == <<makers, called, input, run, instances, listeners, fired, removed>>

\* factoryOptions as a caller writes them
Options(d, v, f, p, i, proto) ==
  [defaults |-> d, validate |-> v, factory |-> f, props |-> p, initialize |-> i,
   prototype |-> proto, events |-> Absent, parent |-> 0, base |-> 0,
   extProto |-> NoNames]

\* the same with the events flag
WithEvents(factoryOptions, flag) ==
  [factoryOptions EXCEPT !.events = flag]

\* FactoryFactory(factoryOptions): FactoryFactory.defaults is {}, so the first
\* runDefaults changes nothing; absent defaults and props become {}
FactoryFactory(factoryOptions) ==
  [factoryOptions EXCEPT
     !.defaults = IF @.kind = "none" THEN MapDefaults(EmptyOpts) ELSE @,
     !.props    = IF @.kind = "none" THEN MapProps(NoOwn) ELSE @]

\* runFactory for a custom factory function
callFactory(f, m, st) ==
  LET called1 == Logged(st, m, "factory", f.id)
  IN  [called1 EXCEPT !.ret = f.ret,
                      !.inst = IF f.ret.kind = "object" THEN ExternalObject ELSE NoInst]

\* a faulty variant of setPrototypeOf: the instance keeps the prototype the base gave it
setPrototypeOfSkipped(inst, m) ==
  inst

\* Object.setPrototypeOf(instance, extendedOptions.prototype)
setPrototypeOf(inst, m) ==
  [inst EXCEPT !.proto = m]

\* Object.assign(instance, extendOptions.prototype): the names it cannot write
unwritable(inst, src) ==
  {n \in Names : src[n] # Absent /\ inst.own[n].val # Absent /\ ~inst.own[n].writable}

ObjectAssign(inst, src) ==
  [inst EXCEPT !.own = [n \in Names |->
     IF src[n] # Absent THEN [val |-> src[n], writable |-> TRUE] ELSE @[n]]]

\* Object.create(Factory.prototype, props)
ObjectCreate(m, descs) ==
  [id |-> "new", proto |-> m, ctor |-> 0, hasOptions |-> FALSE,
   options |-> EmptyOpts, own |-> descs]

\* runProps(Factory, opts)
runProps(p, m, st) ==
  IF p.kind = "function" THEN [Logged(st, m, "props", p.id) EXCEPT !.props = p.map]
  ELSE IF p.kind = "object" THEN [st EXCEPT !.props = p.map]
  ELSE [st EXCEPT !.props = NoOwn]

\* instance.constructor = Factory; instance.options = instanceOptions
\* (strict mode code: writing a property of a primitive throws)
stamp(m, st) ==
  IF st.err # "none" THEN st
  ELSE IF st.inst = NoInst THEN Throw(st, m, "TypeError", "constructor")
  ELSE [st EXCEPT !.inst.ctor = m, !.inst.options = st.opts, !.inst.hasOptions = TRUE]

\* runInitialize(instance, Factory): Factory.initialize.call(instance); what the
\* function assigns to this becomes own state (strict mode code: assigning to a
\* property that is not writable throws)
runInitialize(i, m, st) ==
  IF st.err # "none" THEN st
  ELSE IF i.kind = "function"
    THEN LET entered == Logged(st, m, "initialize", i.id)
             stuck   == unwritable(st.inst, i.sets)
         IN  IF stuck # {} THEN Throw(entered, m, "TypeError", CHOOSE n \in stuck : TRUE)
             ELSE [entered EXCEPT !.inst = ObjectAssign(st.inst, i.sets)]
  ELSE st

\* runFactory(...) || Object.create(Factory.prototype, runProps(...))
orCreate(F, m, st) ==
  IF st.err # "none" \/ ~Falsy(st.ret) THEN st
  ELSE LET p == runProps(F.props, m, st)
       IN  Logged([p EXCEPT !.inst = ObjectCreate(m, p.props)], m, "create", "")

RECURSIVE Factory(_, _)

\* extendedOptions.factory, the wrapper of the Factory m that extend returned
\* (the log also notes the instance as the base Factory returned it, "made", and
\* as the wrapper returns it, "extended")
extendedFactory(m, st) ==
  LET base     == Factory(makers[m].base, Logged(st, m, "factory", "wrapper"))
      made     == Logged(base, m, "made", "wrapper")
      instance == setPrototypeOf(made.inst, m)
      stuck    == unwritable(instance, makers[m].extProto)
      assigned == [made EXCEPT !.inst = ObjectAssign(instance, makers[m].extProto),
                               !.ret = Obj("instance")]
  IN  IF base.err # "none" THEN base
      ELSE IF stuck # {} THEN Throw(made, m, "TypeError", CHOOSE n \in stuck : TRUE)
      ELSE Logged(assigned, m, "extended", "wrapper")

\* runFactory(Factory, opts)
runFactory(F, m, st) ==
  IF st.err # "none" THEN st
  ELSE IF F.factory.kind = "custom"  THEN callFactory(F.factory, m, st)
  ELSE IF F.factory.kind = "wrapper" THEN extendedFactory(m, st)
  ELSE [st EXCEPT !.ret = Bool("false")]

\* a faulty variant of Factory: the instance is built before the options are validated
FactoryValidatesLate(m, st) ==
  LET F  == makers[m]
      s1 == runDefaults(F.defaults, m, st)
      s2 == runFactory(F, m, s1)
      s3 == orCreate(F, m, s2)
      s4 == runValidate(F.validate, m, s3)
      s5 == stamp(m, s4)
  IN  runInitialize(F.initialize, m, s5)

\* Factory(instanceOptions), for the Factory makers[m]
Factory(m, st) ==
  LET F  == makers[m]
      s1 == runDefaults(F.defaults, m, st)
      s2 == runValidate(F.validate, m, s1)
      s3 == runFactory(F, m, s2)
      s4 == orCreate(F, m, s3)
      s5 == stamp(m, s4)
  IN  runInitialize(F.initialize, m, s5)


(***************************************************************************)
(* Factory.extend: _.merge({prototype: {}}, factoryOptions, extendOptions) *)
(* field by field.  A function or a string of extendOptions replaces the   *)
(* base's value, two mappings merge key by key, two arrays index by index, *)
(* and a key extendOptions leaves undefined keeps the base's value.        *)
(***************************************************************************)
mergeKey(b, e) ==
  IF e = Absent THEN b
  ELSE IF e = Undefined /\ b # Absent THEN b
  ELSE e

mergeDefaults(b, e) ==
  IF e.kind = "none" THEN b
  ELSE IF e.kind = "object" /\ b.kind = "object"
    THEN MapDefaults([k \in Keys |-> mergeKey(b.map[k], e.map[k])])
  ELSE e

mergeProps(b, e) ==
  IF e.kind = "none" THEN b
  ELSE IF e.kind = "object" /\ b.kind = "object"
    THEN MapProps([n \in Names |-> IF e.map[n] = NoDesc THEN b.map[n] ELSE e.map[n]])
  ELSE e

mergePairs(b, e) ==
  LET tagOf(k) == (CHOOSE i \in 1..Len(e) : e[i].key = k)
      kept  == [i \in 1..Len(b) |->
                  IF \E j \in 1..Len(e) : e[j].key = b[i].key
                    THEN e[tagOf(b[i].key)] ELSE b[i]]
      added == SelectSeq(e, LAMBDA q : \A i \in 1..Len(b) : b[i].key # q.key)
  IN  kept \o added

RECURSIVE mergeRule(_, _)

mergeRule(b, e) ==
  IF e.kind = "none" THEN b
  ELSE IF e.kind = "object" /\ b.kind = "object"
    THEN [e EXCEPT !.pairs = mergePairs(b.pairs, e.pairs)]
  ELSE IF e.kind = "array" /\ b.kind = "array"
    THEN LET n == IF Len(b.items) > Len(e.items) THEN Len(b.items) ELSE Len(e.items)
         IN  All([i \in 1..n |->
                    IF i > Len(e.items) THEN b.items[i]
                    ELSE IF i > Len(b.items) THEN e.items[i]
                    ELSE mergeRule(b.items[i], e.items[i])])
  ELSE e

\* a faulty variant of extend: the derived prototype object is made of
\* extendOptions.prototype alone, neither merged with nor linked to the base's
extendDetached(b, extendOptions) ==
  LET factoryOptions == makers[b]
  IN  [FactoryFactory(extendOptions) EXCEPT
         !.defaults   = mergeDefaults(factoryOptions.defaults, extendOptions.defaults),
         !.validate   = mergeRule(factoryOptions.validate, extendOptions.validate),
         !.factory    = Wrapper,
         !.props      = mergeProps(factoryOptions.props, extendOptions.props),
         !.initialize = IF extendOptions.initialize.kind = "none"
                          THEN factoryOptions.initialize ELSE extendOptions.initialize,
         !.events     = mergeKey(factoryOptions.events, extendOptions.events),
         !.base       = b,
         !.extProto   = extendOptions.prototype]

\* Factory.extend(extendOptions) of the Factory makers[b]
extend(b, extendOptions) ==
  LET factoryOptions == makers[b]
      extendedOptions ==
        [defaults   |-> mergeDefaults(factoryOptions.defaults, extendOptions.defaults),
         validate   |-> mergeRule(factoryOptions.validate, extendOptions.validate),
         factory    |-> Wrapper,
         props      |-> mergeProps(factoryOptions.props, extendOptions.props),
         initialize |-> IF extendOptions.initialize.kind = "none"
                          THEN factoryOptions.initialize ELSE extendOptions.initialize,
         prototype  |-> [n \in Names |->
                           mergeKey(factoryOptions.prototype[n], extendOptions.prototype[n])],
         events     |-> mergeKey(factoryOptions.events, extendOptions.events),
         parent     |-> b,
         base       |-> b,
         extProto   |-> extendOptions.prototype]
  IN  FactoryFactory(extendedOptions)

(***************************************************************************)
(* eventsMixin(factoryOptions.prototype), called by FactoryFactory when    *)
(* factoryOptions.events is truthy: one EventEmitter is made per call, and *)
(* the on, trigger, once and off it puts on the prototype object all use   *)
(* that emitter.                                                           *)
(***************************************************************************)
RECURSIVE eventEmitter(_)
\* the emitter behind the on/trigger/once/off that an object with the prototype
\* object of Factory p resolves: the one of the nearest prototype object that
\* was mixed into (extend copies the base's methods and links to the base's
\* prototype object; a mixin of its own replaces the copies); 0 when there is none
eventEmitter(p) ==
  IF p = 0 THEN 0
  ELSE IF ~Falsy(makers[p].events) THEN p
  ELSE eventEmitter(makers[p].parent)

Listener(em, event, callback, a, o) ==
  [emitter |-> em, event |-> event, callback |-> callback, owner |-> a, once |-> o]

\* the registrations that eventEmitter.emit(event) of the emitter em calls
listening(em, event) ==
  {i \in 1..Len(listeners) : listeners[i].emitter = em /\ listeners[i].event = event}

\* listeners without the registrations at the indexes gone
without(gone) ==
  LET F[i \in 0..Len(listeners)] ==
        IF i = 0 THEN << >>
        ELSE IF i \in gone THEN F[i - 1] ELSE Append(F[i - 1], listeners[i])
  IN  F[Len(listeners)]

\* the registrations at the indexes idx, in order, as seen from the instance b
seenBy(idx, b) ==
  LET F[i \in 0..Len(listeners)] ==
        IF i = 0 THEN << >>
        ELSE IF i \in idx
          THEN Append(F[i - 1], [callback |-> listeners[i].callback,
                                 owner |-> listeners[i].owner, by |-> b])
        ELSE F[i - 1]
  IN  F[Len(listeners)]

(***************************************************************************)
(* The inputs.                                                             *)
(***************************************************************************)
BaseDefaults == [k \in Keys |-> IF k = "name" THEN Str("base") ELSE Absent]
ExtDefaults  == [k \in Keys |-> IF k = "name" THEN Str("ext") ELSE Num("3")]
BaseProps    == [n \in Names |-> [val |-> Str("own"), writable |-> FALSE]]
ExtProto     == [n \in Names |-> Str("shared")]

EmptyOptions == Options(NoDefaults, NoRule, NoFactory, NoProps, NoInit, NoNames)

\* the specifications FactoryFactory is called with
BaseSpecs ==
  {EmptyOptions} \cup
  { Options(d, v, f, FnProps("baseProps", BaseProps), FnInit("baseInit"), NoNames) :
      d \in {MapDefaults(BaseDefaults), FnDefaults("baseDefaults", BaseDefaults)},
      v \in {Required("age"), Predicate("baseValidate", FALSE, Undefined)},
      f \in {NoFactory, CustomFactory("baseFactory", Obj("ext")),
             CustomFactory("baseFactory", Null), CustomFactory("baseFactory", Num("5"))} }

\* the specifications Factory.extend is called with
ExtSpecs ==
  { EmptyOptions,
    Options(FnDefaults("extDefaults", ExtDefaults), NoRule, NoFactory, NoProps,
            FnInit("extInit"), NoNames),
    Options(MapDefaults(ExtDefaults), Required("name"), CustomFactory("extFactory", Obj("ext")),
            FnProps("extProps", BaseProps), NoInit, ExtProto) }

\* the options a Factory is called with
MainInputs ==
  { [k \in Keys |-> IF k = "name" THEN n ELSE a] :
      n \in {Absent, Undefined, Null, Str("in")}, a \in {Absent, Num("7")} }

Rules ==
  { Required("name"), Required("age"),
    Typed("nameString", <<Pair("name", Tag("string"))>>),
    Typed("ageNumber", <<Pair("age", Tag("number"))>>),
    Typed("ageObject", <<Pair("age", Tag("object"))>>),
    Typed("ageA", <<Pair("age", Ctor("A"))>>),
    Typed("both", <<Pair("name", Tag("string")), Pair("age", Ctor("A"))>>),
    Predicate("p1", FALSE, Bool("false")),
    Predicate("p2", TRUE, Undefined),
    All(<<Required("name"), Typed("ageNumber", <<Pair("age", Tag("number"))>>),
          All(<<Required("age"), Predicate("p1", FALSE, Bool("false"))>>)>>),
    All(<<Predicate("p1", FALSE, Bool("false")), Predicate("p2", TRUE, Undefined),
          Predicate("p3", FALSE, Undefined)>>),
    All(<<All(<<Predicate("p1", FALSE, Bool("false")), Required("age")>>),
          Predicate("p3", FALSE, Bool("true"))>>) }

RuleSpecs ==
  { Options(d, v, NoFactory, NoProps, NoInit, NoNames) :
      d \in {NoDefaults, MapDefaults(BaseDefaults)}, v \in Rules }

RuleValues ==
  { Absent, Undefined, Null, Str(""), Str("a"), Num("0"), Num("3"),
    Bool("false"), Bool("true"), Obj("A"), Obj("B") }

RuleInputs == [Keys -> RuleValues]

\* Factories with and without the events flag, and what they are extended with
EventSpecs    == {EmptyOptions, WithEvents(EmptyOptions, Bool("true"))}
EventExtSpecs == {EmptyOptions, WithEvents(EmptyOptions, Bool("false"))}

EventNames == {"change"}
Callbacks  == {"f", "g"}

\* a prototype object (or what initialize assigns) with x and y
Members(x, y) == [n \in Names |-> IF n = "x" THEN x ELSE y]

\* own-property descriptors for x: {x: {value}} and {x: {value, writable: true}}
FrozenX   == [n \in Names |-> IF n = "x" THEN [val |-> Str("own"), writable |-> FALSE]
                                          ELSE NoDesc]
WritableX == [n \in Names |-> IF n = "x" THEN [val |-> Str("own"), writable |-> TRUE]
                                          ELSE NoDesc]

\* Factories with a prototype, own-property descriptors and an initialize that
\* assigns this.y
ChainBaseSpecs ==
  { Options(NoDefaults, NoRule, NoFactory, p, i, proto) :
      p \in {NoProps, MapProps(FrozenX), MapProps(WritableX)},
      i \in {NoInit, SetterInit("baseInit", Members(Absent, Str("set")))},
      proto \in {NoNames, Members(Str("baseX"), Absent),
                 Members(Str("baseX"), Str("baseY"))} }

\* what they are extended with
ChainExtSpecs ==
  { Options(NoDefaults, NoRule, NoFactory, NoProps, NoInit, proto) :
      proto \in {NoNames, Members(Str("extX"), Absent), Members(Absent, Str("extY")),
                 Members(Str("moreX"), Absent)} }
  \cup { Options(NoDefaults, NoRule, NoFactory, NoProps,
                 SetterInit("extInit", Members(Str("late"), Absent)), NoNames) }

(***************************************************************************)
(* The operations.                                                         *)
(***************************************************************************)
Init ==
  /\ makers = << >>
  /\ called = 0
  /\ input = EmptyOpts
  /\ run = Start(EmptyOpts)
  /\ instances = << >>
  /\ listeners = << >>
  /\ fired = << >>
  /\ removed = << >>

\* const Factory = FactoryFactory(factoryOptions): the one Factory that is made
\* directly; every other Factory is derived from an earlier one through extend
Create(specs) ==
  /\ makers = << >>
  /\ \E factoryOptions \in specs : makers' = <<FactoryFactory(factoryOptions)>>
  /\ UNCHANGED <<called, input, run, held>>

\* const ExtendedFactory = Factory.extend(extendOptions)
ExtendWith(specs) ==
  /\ Len(makers) < MaxMakers
  /\ \E b \in 1..Len(makers), extendOptions \in specs :
       makers' = Append(makers, extend(b, extendOptions))
  /\ UNCHANGED <<called, input, run, held>>

Extend == ExtendWith(ExtSpecs)

\* Factory(instanceOptions)
Invoke(inputs) ==
  \E m \in 1..Len(makers), instanceOptions \in inputs :
    /\ called' = m
    /\ input' = instanceOptions
    /\ run' = Factory(m, Start(instanceOptions))
    /\ UNCHANGED <<makers, held>>

\* const instance = Factory(): a call whose instance the caller holds on to
New ==
  /\ Len(instances) < MaxInstances
  /\ \E m \in 1..Len(makers) :
       /\ called' = m
       /\ input' = EmptyOpts
       /\ run' = Factory(m, Start(EmptyOpts))
       /\ instances' = IF run'.err = "none" THEN Append(instances, run'.inst)
                       ELSE instances
  /\ UNCHANGED <<makers, listeners, fired, removed>>

\* instances[a].on(event, callback): eventEmitter.on(event, callback)
On ==
  /\ Len(listeners) < MaxListeners
  /\ \E a \in 1..Len(instances), event \in EventNames, callback \in Callbacks :
       LET em == eventEmitter(instances[a].proto)
       IN  /\ em # 0
           /\ listeners' = Append(listeners, Listener(em, event, callback, a, FALSE))
  /\ fired' = << >>
  /\ removed' = << >>
  /\ UNCHANGED <<makers, called, input, run, instances>>

\* instances[a].once(event, callback): this.on(event, cb) with a cb of its own
\* that calls callback and then this.off(event, cb)
Once ==
  /\ Len(listeners) < MaxListeners
  /\ \E a \in 1..Len(instances), event \in EventNames, callback \in Callbacks :
       LET em == eventEmitter(instances[a].proto)
       IN  /\ em # 0
           /\ listeners' = Append(listeners, Listener(em, event, callback, a, TRUE))
  /\ fired' = << >>
  /\ removed' = << >>
  /\ UNCHANGED <<makers, called, input, run, instances>>

\* instances[b].off(event, callback): removeListener takes away the latest
\* registration of that function (the cb of a once is not the caller's function)
OffCallback ==
  /\ \E b \in 1..Len(instances), event \in EventNames, callback \in Callbacks :
       LET em   == eventEmitter(instances[b].proto)
           same == {i \in listening(em, event) :
                      listeners[i].callback = callback /\ ~listeners[i].once}
           gone == {i \in same : \A j \in same : j <= i}
       IN  /\ em # 0
           /\ listeners' = without(gone)
           /\ removed' = seenBy(gone, b)
  /\ fired' = << >>
  /\ UNCHANGED <<makers, called, input, run, instances>>

\* instances[b].off(event): removeAllListeners(event)
OffAll ==
  /\ \E b \in 1..Len(instances), event \in EventNames :
       LET em   == eventEmitter(instances[b].proto)
           gone == listening(em, event)
       IN  /\ em # 0
           /\ listeners' = without(gone)
           /\ removed' = seenBy(gone, b)
  /\ fired' = << >>
  /\ UNCHANGED <<makers, called, input, run, instances>>

\* instances[b].trigger(event): eventEmitter.emit(event, data) calls every
\* listener of the event; the cb of a once then takes itself away
Trigger ==
  /\ \E b \in 1..Len(instances), event \in EventNames :
       LET em     == eventEmitter(instances[b].proto)
           called1 == listening(em, event)
       IN  /\ em # 0
           /\ fired' = seenBy(called1, b)
           /\ listeners' = without({i \in called1 : listeners[i].once})
  /\ removed' = << >>
  /\ UNCHANGED <<makers, called, input, run, instances>>

Next ==
  \/ Create(BaseSpecs)
  \/ Extend
  \/ Invoke(MainInputs)

Spec == Init /\ [][Next]_vars

\* one Factory with nothing but defaults and a validate rule, called with any options
NextRules ==
  \/ Create(RuleSpecs)
  \/ Invoke(RuleInputs)

SpecRules == Init /\ [][NextRules]_vars

\* Factories with prototypes and own state, extended and called without options
NextChain ==
  \/ Create(ChainBaseSpecs)
  \/ ExtendWith(ChainExtSpecs)
  \/ Invoke({EmptyOpts})

SpecChain == Init /\ [][NextChain]_vars

\* Factories with the events mixin, their instances, and the calls of on, once,
\* off and trigger on them
NextEvents ==
  \/ Create(EventSpecs)
  \/ ExtendWith(EventExtSpecs)
  \/ New
  \/ On
  \/ Once
  \/ OffCallback
  \/ OffAll
  \/ Trigger

SpecEvents == Init /\ [][NextEvents]_vars


(***************************************************************************)
(* What a finished call shows.                                             *)
(***************************************************************************)
Called    == called # 0
Completed == called # 0 /\ run.err = "none"

UserHooks == {"defaults", "validate", "factory", "props", "initialize"}

\* the calls of user functions that the Factory m made itself, in order
OwnHooks(m) ==
  LET own == SelectSeq(run.log, LAMBDA e : e.m = m /\ e.hook \in UserHooks)
  IN  [i \in 1..Len(own) |-> own[i].hook]

\* the events of the log with one of the hooks hs
EventsOf(hs) ==
  {i \in 1..Len(run.log) : run.log[i].hook \in hs}

RECURSIVE BaseChain(_)
\* the Factory m and the Factories it was derived from, through extend
BaseChain(m) ==
  IF m = 0 THEN {} ELSE {m} \cup BaseChain(makers[m].base)

RECURSIVE ProtoChain(_)
\* the prototype objects on the chain that starts at the prototype object of Factory p
ProtoChain(p) ==
  IF p = 0 THEN {} ELSE {p} \cup ProtoChain(makers[p].parent)

\* instance instanceof Factory a: a.prototype is on the instance's prototype chain
InstanceOfFactory(inst, a) ==
  a \in ProtoChain(inst.proto)

RECURSIVE Lookup(_, _)
\* the name n looked up on the prototype object of Factory p and on the objects
\* it delegates to; Absent when none of them has it
Lookup(p, n) ==
  IF p = 0 THEN Absent
  ELSE IF makers[p].prototype[n] # Absent THEN makers[p].prototype[n]
  ELSE Lookup(makers[p].parent, n)

\* instance[n]: an own property first, then the prototype chain
Resolve(inst, n) ==
  IF inst.own[n].val # Absent THEN inst.own[n].val ELSE Lookup(inst.proto, n)

\* the user functions a Factory with options F calls when every stage runs once
ExpectedHooks(F) ==
  (IF F.defaults.kind = "function" THEN <<"defaults">> ELSE << >>) \o
  (IF F.validate.kind = "function" THEN <<"validate">> ELSE << >>) \o
  (IF F.factory.kind # "none" THEN <<"factory">>
   ELSE IF F.props.kind = "function" THEN <<"props">> ELSE << >>) \o
  (IF F.initialize.kind = "function" THEN <<"initialize">> ELSE << >>)

(***************************************************************************)
(* C1: in every Factory call that completes the stages run in the order    *)
(* defaults, validate, construction, options stamped, initialize: a        *)
(* Factory with a factory function calls defaults, validate, factory,      *)
(* initialize and never props; one without calls defaults, validate,       *)
(* props, initialize; and when initialize runs the instance carries the    *)
(* defaulted options.                                                      *)
(***************************************************************************)
C1_PipelineOrder ==
  Completed =>
    \A m \in BaseChain(called) :
      /\ OwnHooks(m) = ExpectedHooks(makers[m])
      /\ \A i \in EventsOf({"initialize"}) :
           run.log[i].m = m =>
             /\ run.log[i].inst.hasOptions
             /\ run.log[i].inst.options = run.log[i].opts
             /\ run.log[i].opts = run.opts


(***************************************************************************)
(* C2: when the validate rule fails for the defaulted options the call     *)
(* raises, and ends there: no factory, props or initialize function of     *)
(* that Factory is called, nothing is constructed and no instance is       *)
(* returned.                                                               *)
(***************************************************************************)
ValidationErrors == {"missing", "wrongType", "custom"}
LaterStages      == {"factory", "props", "create", "initialize"}

C2_ValidationAborts ==
  Called =>
    LET F         == makers[called]
        defaulted == runDefaults(F.defaults, called, Start(input))
        validated == runValidate(F.validate, called, defaulted)
    IN  /\ validated.err # "none" =>
             /\ run.err = validated.err
             /\ run.inst = NoInst
             /\ run.log = validated.log
             /\ EventsOf(LaterStages) = {}
        /\ run.err \in ValidationErrors =>
             /\ run.inst = NoInst
             /\ \A i \in EventsOf(LaterStages) : run.log[i].m # run.errAt

\* a call of a Factory with a custom factory and an initialize function whose rule fails
C2_Witness ==
  /\ Called
  /\ run.err = "missing"
  /\ run.errAt = called
  /\ makers[called].factory.kind = "custom"
  /\ makers[called].initialize.kind = "function"

(***************************************************************************)
(* C3: no-overwrite law of defaults.  For a Factory whose defaults is a    *)
(* mapping, after a call every key of the mapping that the caller's        *)
(* options do not give (the key is missing or undefined) has the declared  *)
(* default in instance.options, and every key the caller gave keeps the    *)
(* caller's value, whatever default is declared for it.                    *)
(***************************************************************************)
C3_NoOverwrite ==
  (Completed /\ makers[called].defaults.kind = "object") =>
    \A k \in Keys :
      LET declared == makers[called].defaults.map[k]
      IN  /\ (declared # Absent /\ Get(input, k) = Undefined) =>
                run.inst.options[k] = declared
          /\ Get(input, k) # Undefined => run.inst.options[k] = input[k]

\* one key is filled from the defaults, another has a default and keeps the caller's value
C3_Witness ==
  /\ Completed
  /\ makers[called].defaults.kind = "object"
  /\ \E k \in Keys :
       /\ makers[called].defaults.map[k] # Absent
       /\ input[k] = Absent
       /\ run.inst.options[k] = makers[called].defaults.map[k]
  /\ \E k \in Keys :
       /\ makers[called].defaults.map[k] \notin {Absent, input[k]}
       /\ input[k] \notin {Absent, Undefined}
       /\ run.inst.options[k] = input[k]

(***************************************************************************)
(* C4: an instance returned by a Factory derived through extend is an      *)
(* instance of that Factory and of every Factory it was derived from: the  *)
(* prototype object of each is on the instance's prototype chain.          *)
(***************************************************************************)
\* (a Factory made directly returns whatever its custom factory returns, so the
\* statement is about the Factories extend returns, as the claim's chain is)
C4_InstanceOfChain ==
  (Completed /\ makers[called].base # 0) =>
    \A a \in BaseChain(called) : InstanceOfFactory(run.inst, a)

\* an instance of a Factory that was derived from a derived Factory
C4_Witness ==
  /\ Completed
  /\ makers[called].base # 0
  /\ makers[makers[called].base].base # 0
  /\ Cardinality(BaseChain(called)) = 3
  /\ \A a \in BaseChain(called) : InstanceOfFactory(run.inst, a)


(***************************************************************************)
(* C5: a validate mapping accepts the options exactly when, for every      *)
(* (field, type) pair, the value is neither undefined nor null, typeof     *)
(* value is the type or the type is a constructor the value is an instance *)
(* of, and the value is not '' for the type 'string'; otherwise it raises, *)
(* "not provided" for an undefined, null or '' value and "wrong type" for  *)
(* a type mismatch.                                                        *)
(***************************************************************************)
TypeMatches(value, type) ==
  \/ ~type.isFn /\ TypeOf(value) = type.name
  \/ type.isFn /\ InstanceOf(value, type.name)

ClaimedPairError(value, type) ==
  IF value \in {Undefined, Null} THEN "missing"
  ELSE IF ~TypeMatches(value, type) THEN "wrongType"
  ELSE IF type = Tag("string") /\ value = Str("") THEN "missing"
  ELSE "none"

C5_TypedRule ==
  (Called /\ makers[called].validate.kind = "object") =>
    LET pairs    == makers[called].validate.pairs
        claimed  == [i \in 1..Len(pairs) |->
                       ClaimedPairError(Get(run.opts, pairs[i].key), pairs[i].tag)]
        rejected == {i \in 1..Len(pairs) : claimed[i] # "none"}
    IN  /\ run.err = "none" <=> rejected = {}
        /\ run.err # "none" => \E i \in rejected : run.err = claimed[i]

(***************************************************************************)
(* C6: a validate string naming the field f makes the call raise exactly   *)
(* when the option f, after the defaults, is missing, undefined, null or   *)
(* ''; every other value (a non-empty string, 0, false, an object) passes. *)
(***************************************************************************)
C6_RequiredRule ==
  (Called /\ makers[called].validate.kind = "string") =>
    LET f     == makers[called].validate.field
        value == run.opts[f]
    IN  /\ run.err # "none" <=> value \in {Absent, Undefined, Null, Str("")}
        /\ run.err # "none" => run.err = "missing" /\ run.errKey = f /\ run.inst = NoInst
        /\ run.err = "none" => run.inst # NoInst

\* a call that passes with 0 or false for the required field
C6_Witness ==
  /\ Called
  /\ makers[called].validate.kind = "string"
  /\ run.opts[makers[called].validate.field] \in {Num("0"), Bool("false")}
  /\ run.err = "none"
  /\ run.inst.hasOptions

(***************************************************************************)
(* C7: a validate array evaluates its elements in order, nested arrays     *)
(* included, on the fully defaulted options; the first element that fails  *)
(* ends the evaluation, so no later element is evaluated; the instance is  *)
(* constructed only when every element was evaluated and passed; and what  *)
(* a predicate returns never makes it fail, only raising does.             *)
(***************************************************************************)
RECURSIVE Leaves(_)
\* the elements of a rule that are not arrays, in order
Leaves(rule) ==
  IF rule.kind = "array"
    THEN IF rule.items = << >> THEN << >>
         ELSE Leaves(Head(rule.items)) \o Leaves(All(Tail(rule.items)))
  ELSE <<rule>>

LeafFails(leaf, opts) ==
  IF leaf.kind = "function" THEN leaf.throws
  ELSE IF leaf.kind = "string" THEN opts[leaf.field] \in {Absent, Undefined, Null, Str("")}
  ELSE IF leaf.kind = "object"
    THEN \E i \in 1..Len(leaf.pairs) : PairError(leaf.pairs[i], opts) # "none"
  ELSE FALSE

C7_SequenceRule ==
  (Called /\ makers[called].validate.kind = "array") =>
    LET leaves    == Leaves(makers[called].validate)
        defaults  == makers[called].defaults.map
        defaulted == [k \in Keys |->
                        IF input[k] \in {Absent, Undefined} /\ defaults[k] # Absent
                          THEN defaults[k] ELSE input[k]]
        failing   == {i \in 1..Len(leaves) : LeafFails(leaves[i], defaulted)}
        n         == IF failing = {} THEN Len(leaves)
                     ELSE CHOOSE i \in failing : \A j \in failing : i <= j
        evaluated == SelectSeq(run.log, LAMBDA e : e.hook \in {"rule", "validate"})
    IN  /\ Len(evaluated) = n
        /\ \A i \in 1..n : evaluated[i].fn = leaves[i].id /\ evaluated[i].opts = defaulted
        /\ run.err # "none" <=> failing # {}
        /\ EventsOf({"create"}) # {} <=> failing = {}

\* every element of a nested array passed, a predicate that returned false among them
C7_Witness ==
  /\ Called
  /\ makers[called].validate.kind = "array"
  /\ run.err = "none"
  /\ run.opts # input
  /\ \E i \in EventsOf({"validate"}) : run.log[i].fn = "p1"
  /\ \E i \in EventsOf({"validate"}) : run.log[i].fn = "p3"
  /\ EventsOf({"create"}) # {}


(***************************************************************************)
(* C8: a Factory with a custom factory function returns exactly the value  *)
(* that function returned, whatever the value: the same object, not a new  *)
(* one; nothing is built with Object.create and props is not called.       *)
(***************************************************************************)
C8_FactoryVerbatim ==
  (Called /\ makers[called].factory.kind = "custom"
          /\ run.err \notin ValidationErrors) =>
    /\ run.err = "none"
    /\ makers[called].factory.ret = Obj(run.inst.id)
    /\ \A i \in EventsOf({"props", "create"}) : run.log[i].m # called

(***************************************************************************)
(* C9: one call of a Factory with an initialize function, its own or the   *)
(* one it inherits from the Factory it extends, calls every declared       *)
(* initialize function exactly once, with the returned instance as this.   *)
(***************************************************************************)
DeclaredInitializers ==
  {makers[m].initialize.id : m \in {a \in BaseChain(called) : makers[a].initialize.kind = "function"}}

C9_InitializeOnce ==
  Completed =>
    \A f \in DeclaredInitializers :
      LET calls == {i \in EventsOf({"initialize"}) : run.log[i].fn = f}
      IN  /\ Cardinality(calls) = 1
          /\ \A i \in calls : run.log[i].inst.id = run.inst.id

(***************************************************************************)
(* C10: one call of a Factory whose defaults is a function, declared or    *)
(* inherited through extend, calls that function exactly once, with the    *)
(* caller's options before any default is merged into them.                *)
(***************************************************************************)
C10_DefaultsOnce ==
  (Called /\ makers[called].defaults.kind = "function") =>
    LET calls == {i \in EventsOf({"defaults"}) : run.log[i].fn = makers[called].defaults.id}
    IN  /\ Cardinality(calls) = 1
        /\ \A i \in calls : run.log[i].opts = input

(***************************************************************************)
(* C11: ancestor lookup.  For an instance of a derived Factory             *)
(* D = B.extend(E), a name that is not an own property of the instance     *)
(* resolves through the prototype chain to what E's prototype defines for  *)
(* it, else to what the nearest ancestor defines, and a name no prototype  *)
(* in the ancestry defines is unresolved.  The same value is what reading  *)
(* the name on the instance gives whenever no props and no initialize of   *)
(* the ancestry made the name own state.                                   *)
(***************************************************************************)
RECURSIVE Described(_, _)
\* what the prototypes the callers wrote define for n, nearest first:
\* extendOptions.prototype of m, of its base, ..., the prototype of the first Factory
Described(m, n) ==
  IF m = 0 THEN Absent
  ELSE IF makers[m].base = 0 THEN makers[m].prototype[n]
  ELSE IF makers[m].extProto[n] # Absent THEN makers[m].extProto[n]
  ELSE Described(makers[m].base, n)

\* the names some props or initialize of m's ancestry makes own state
PipelineNames(m) ==
  {n \in Names : \E a \in BaseChain(m) :
     \/ makers[a].props.map[n] # NoDesc
     \/ makers[a].initialize.sets[n] # Absent}

C11_AncestorLookup ==
  (Completed /\ makers[called].base # 0) =>
    \A n \in Names :
      /\ run.inst.own[n].val = Absent =>
           Lookup(run.inst.proto, n) = Described(called, n)
      /\ n \notin PipelineNames(called) =>
           Resolve(run.inst, n) = Described(called, n)

\* an instance of a Factory derived twice: x is not own and resolves to what the
\* first Factory's prototype defines, y is what the last extendOptions defines
C11_Witness ==
  /\ Completed
  /\ makers[called].base # 0
  /\ makers[makers[called].base].base # 0
  /\ run.inst.own["x"].val = Absent
  /\ makers[called].extProto["x"] = Absent
  /\ makers[makers[called].base].extProto["x"] = Absent
  /\ Lookup(run.inst.proto, "x") = Str("baseX")
  /\ "y" \notin PipelineNames(called)
  /\ makers[called].extProto["y"] = Str("extY")
  /\ Resolve(run.inst, "y") = Str("extY")

(***************************************************************************)
(* C12: on, off, once and trigger are scoped to the instance.  For two     *)
(* distinct instances A and B of the same Factory, B.trigger invokes no    *)
(* callback that was registered through A.on or A.once, and B.off removes  *)
(* no listener that was registered through A.                              *)
(***************************************************************************)
C12_EventsScopedToInstance ==
  /\ \A i \in 1..Len(fired) :
       instances[fired[i].owner].ctor = instances[fired[i].by].ctor =>
         fired[i].owner = fired[i].by
  /\ \A i \in 1..Len(removed) :
       instances[removed[i].owner].ctor = instances[removed[i].by].ctor =>
         removed[i].owner = removed[i].by

(***************************************************************************)
(* C13: the wrapper that extend installs leaves the own state of the       *)
(* instance alone.  Every own property the instance has when the base      *)
(* Factory returns it (from own-property descriptors, from initialize)     *)
(* has the same value and the same writability when the wrapper returns,   *)
(* whatever extendOptions.prototype defines.                               *)
(***************************************************************************)
C13_WrapperKeepsOwnState ==
  \A i \in EventsOf({"made"}), j \in EventsOf({"extended"}) :
    run.log[i].m = run.log[j].m =>
      \A n \in Names :
        run.log[i].inst.own[n].val # Absent =>
          run.log[j].inst.own[n] = run.log[i].inst.own[n]

====
